---- MODULE Spec2Model ----
(***************************************************************************)
(* Round engine and conjugation rule engine of the Spanish verb roguelike  *)
(* (src/game/logic.py, src/game/rules.py, src/game/models.py,              *)
(* src/game/lexicon.py).                                                   *)
(*                                                                         *)
(* A Python str is a sequence of one-character tokens.  An accented letter *)
(* is one token written with a trailing quote ("a'" is a-acute), the token *)
(* "'" alone is the combining acute accent U+0301, " " is a blank and an   *)
(* upper-case letter is itself.  Python's None is the value None.          *)
(* The six person labels of rules.PERSONS are written 1s 2s 3s 1p 2p 3p.   *)
(***************************************************************************)
EXTENDS Integers, Sequences, FiniteSets, TLC

None == <<"None">>

ar == <<"a", "r">>
er == <<"e", "r">>
ir == <<"i", "r">>

--------------------------------------------------------------------------
(* Python string primitives *)

\* s.endswith(e)
endswith(s, e) ==
    /\ Len(e) <= Len(s)
    /\ SubSeq(s, Len(s) - Len(e) + 1, Len(s)) = e

\* s[:-n] for n > 0
DropLast(s, n) == IF n >= Len(s) THEN <<>> ELSE SubSeq(s, 1, Len(s) - n)

\* s[-n:] for n > 0
TakeLast(s, n) == IF n >= Len(s) THEN s ELSE SubSeq(s, Len(s) - n + 1, Len(s))

\* bool(s) of an Optional[str]
Truthy(s) == s # None /\ s # <<>>

\* s or ''
OrEmpty(s) == IF Truthy(s) THEN s ELSE <<>>

\* substring test: needle in s
Contains(s, needle) ==
    \E i \in 1..(Len(s) - Len(needle) + 1) : SubSeq(s, i, i + Len(needle) - 1) = needle

--------------------------------------------------------------------------
(* rules.py *)

PERSONS == <<"1s", "2s", "3s", "1p", "2p", "3p">>

PersonSet == {PERSONS[i] : i \in 1..Len(PERSONS)}

\* The dict REGULAR_ENDINGS in insertion order: key, list of suffixes.
REGULAR_ENDINGS ==
    << <<ar, << <<"o">>, <<"a", "s">>, <<"a">>, <<"a", "m", "o", "s">>,
                 <<"a'", "i", "s">>, <<"a", "n">> >> >>,
       << <<"r">>, << >> >>,
       <<er, << <<"o">>, <<"e", "s">>, <<"e">>, <<"e", "m", "o", "s">>,
                 <<"e'", "i", "s">>, <<"e", "n">> >> >>,
       <<ir, << <<"o">>, <<"e", "s">>, <<"e">>, <<"i", "m", "o", "s">>,
                 <<"i'", "s">>, <<"e", "n">> >> >> >>

\* REGULAR_ENDINGS.get(base, [])
RegularEndingsGet(base) ==
    IF \E i \in 1..Len(REGULAR_ENDINGS) : REGULAR_ENDINGS[i][1] = base
    THEN LET i == CHOOSE j \in 1..Len(REGULAR_ENDINGS) : REGULAR_ENDINGS[j][1] = base
         IN  REGULAR_ENDINGS[i][2]
    ELSE << >>

RuleCard(person, stem_from, stem_to, ending_from, ending_to, verb_infinitive) ==
    [person |-> person, stem_from |-> stem_from, stem_to |-> stem_to,
     ending_from |-> ending_from, ending_to |-> ending_to,
     verb_infinitive |-> verb_infinitive]

\* RuleCard.pattern
pattern(rule) ==
    LET stemPart == OrEmpty(rule.stem_from) \o <<"-", ">">> \o OrEmpty(rule.stem_to)
        endPart  == OrEmpty(rule.ending_from) \o <<"-", ">">> \o OrEmpty(rule.ending_to)
        hasStem  == rule.stem_from # None \/ rule.stem_to # None
        hasEnd   == rule.ending_from # None \/ rule.ending_to # None
    IN  IF hasStem /\ hasEnd THEN stemPart \o <<" ", "+", " ">> \o endPart
        ELSE IF hasStem THEN stemPart
        ELSE IF hasEnd THEN endPart
        ELSE <<>>

\* detect_ending
detect_ending(infinitive) ==
    IF endswith(infinitive, ar) THEN ar
    ELSE IF endswith(infinitive, er) THEN er
    ELSE IF endswith(infinitive, ir) THEN ir
    ELSE <<>>

\* The 18 generic rules, in the order the first loop appends them.
GenericRulesFrom(k) ==
    LET base    == REGULAR_ENDINGS[k][1]
        endings == REGULAR_ENDINGS[k][2]
    IN  IF base \in {ar, er, ir}
        THEN [i \in 1..Len(endings) |->
                 RuleCard(PERSONS[i], None, None, base, endings[i], None)]
        ELSE << >>

RECURSIVE GenericRules(_)
GenericRules(k) ==
    IF k > Len(REGULAR_ENDINGS) THEN << >>
    ELSE GenericRulesFrom(k) \o GenericRules(k + 1)

\* forms.get(person)
FormsGet(forms, person) == IF person \in DOMAIN forms THEN forms[person] ELSE None

\* The rule the second loop derives from one lexicon entry and one person.
IrregularRule(v, person) ==
    LET inf    == v.infinitive
        base   == IF endswith(inf, ar) THEN ar
                  ELSE IF endswith(inf, er) THEN er
                  ELSE IF endswith(inf, ir) THEN ir
                  ELSE TakeLast(inf, 2)
        stem   == DropLast(inf, Len(base))
        target == FormsGet(v.present_indicative, person)
        regs   == RegularEndingsGet(base)
        cands  == {regs[i] : i \in 1..Len(regs)}
        hits   == {e \in cands : endswith(target, e)}
        ending_prime ==
            IF hits # {}
            THEN CHOOSE e \in hits : \A f \in hits : Len(f) <= Len(e)
            ELSE TakeLast(target, 2)
        stem_prime == IF ending_prime # <<>>
                      THEN DropLast(target, Len(ending_prime))
                      ELSE target
    IN  RuleCard(person,
                 IF stem_prime # stem THEN stem ELSE None,
                 IF stem_prime # stem THEN stem_prime ELSE None,
                 base, ending_prime, inf)

RECURSIVE IrregularRulesOf(_, _)
IrregularRulesOf(v, i) ==
    IF i > Len(PERSONS) THEN << >>
    ELSE (IF Truthy(FormsGet(v.present_indicative, PERSONS[i]))
          THEN << IrregularRule(v, PERSONS[i]) >>
          ELSE << >>) \o IrregularRulesOf(v, i + 1)

RECURSIVE LexiconRules(_, _)
LexiconRules(verbs, k) ==
    IF k > Len(verbs) THEN << >>
    ELSE (IF Truthy(verbs[k].infinitive)
          THEN IrregularRulesOf(verbs[k], 1)
          ELSE << >>) \o LexiconRules(verbs, k + 1)

\* present_indicative_rules(lexicon); lexicon.present = FALSE is lexicon None
present_indicative_rules(lexicon) ==
    GenericRules(1) \o
    (IF lexicon.present /\ lexicon.verbs # << >>
     THEN LexiconRules(lexicon.verbs, 1)
     ELSE << >>)

\* an applier that takes the stem of the rule without comparing stem_from
apply_rule_any_stem(infinitive, rule) ==
    LET ending == detect_ending(infinitive)
        stem   == DropLast(infinitive, Len(ending))
        new_stem   == IF rule.stem_to # None THEN rule.stem_to ELSE stem
        new_ending == IF rule.ending_to # None THEN rule.ending_to ELSE ending
    IN  IF Truthy(rule.verb_infinitive) /\ rule.verb_infinitive # infinitive
        THEN <<FALSE, infinitive>>
        ELSE IF ending = <<>>
        THEN <<FALSE, infinitive>>
        ELSE IF rule.ending_from # None /\ rule.ending_from # ending
        THEN <<FALSE, infinitive>>
        ELSE <<TRUE, new_stem \o new_ending>>

\* apply_rule_to_verb: the pair (ok, form)
apply_rule_to_verb(infinitive, rule) ==
    LET ending == detect_ending(infinitive)
        stem   == DropLast(infinitive, Len(ending))
        new_stem   == IF rule.stem_from # None \/ rule.stem_to # None
                      THEN (IF rule.stem_to # None THEN rule.stem_to ELSE stem)
                      ELSE stem
        new_ending == IF rule.ending_to # None THEN rule.ending_to ELSE ending
    IN  IF Truthy(rule.verb_infinitive) /\ rule.verb_infinitive # infinitive
        THEN <<FALSE, infinitive>>
        ELSE IF ending = <<>>
        THEN <<FALSE, infinitive>>
        ELSE IF rule.ending_from # None /\ rule.ending_from \notin {ar, er, ir}
        THEN <<FALSE, infinitive>>
        ELSE IF rule.ending_from # None /\ rule.ending_from # ending
        THEN <<FALSE, infinitive>>
        ELSE IF (rule.stem_from # None \/ rule.stem_to # None)
                /\ rule.stem_from # None /\ stem # rule.stem_from
        THEN <<FALSE, infinitive>>
        ELSE <<TRUE, new_stem \o new_ending>>

--------------------------------------------------------------------------
(* lexicon.py *)

\* VerbLexicon.get_present_form: the first entry with this infinitive decides
get_present_form(lexicon, infinitive, person) ==
    IF \E k \in 1..Len(lexicon.verbs) : lexicon.verbs[k].infinitive = infinitive
    THEN LET k == CHOOSE j \in 1..Len(lexicon.verbs) :
                      /\ lexicon.verbs[j].infinitive = infinitive
                      /\ \A h \in 1..(j - 1) : lexicon.verbs[h].infinitive # infinitive
         IN  FormsGet(lexicon.verbs[k].present_indicative, person)
    ELSE None

RECURSIVE InfinitivesFrom(_, _)
InfinitivesFrom(verbs, k) ==
    IF k > Len(verbs) THEN << >>
    ELSE (IF Truthy(verbs[k].infinitive) THEN << verbs[k].infinitive >> ELSE << >>)
         \o InfinitivesFrom(verbs, k + 1)

\* VerbLexicon.list_infinitives
list_infinitives(lexicon) == InfinitivesFrom(lexicon.verbs, 1)

\* an index into PERSONS counted from 1
PersonIndexFromOne(person) ==
    IF person \in PersonSet
    THEN CHOOSE i \in 1..Len(PERSONS) : PERSONS[i] = person
    ELSE -1

\* PERSONS.index(person), 0-based; -1 stands for ValueError
PersonIndex(person) ==
    IF person \in PersonSet
    THEN (CHOOSE i \in 1..Len(PERSONS) : PERSONS[i] = person) - 1
    ELSE -1

\* expected_present_form
expected_present_form(infinitive, person, lexicon) ==
    LET form    == IF lexicon.present
                   THEN get_present_form(lexicon, infinitive, person)
                   ELSE None
        ending  == detect_ending(infinitive)
        idx     == PersonIndex(person)
        stem    == DropLast(infinitive, Len(ending))
        endings == RegularEndingsGet(ending)
    IN  IF lexicon.present /\ Truthy(form) THEN form
        ELSE IF ending \in {ar, er, ir} /\ idx >= 0 /\ idx < Len(endings)
        THEN stem \o endings[idx + 1]
        ELSE <<>>

--------------------------------------------------------------------------
(* logic.py: _normalize_form *)

Vowels == {"a", "e", "i", "o", "u", "A", "E", "I", "O", "U"}

UPPER == <<"A", "B", "C", "D", "E", "F", "G", "H", "I", "J", "K", "L", "M",
           "N", "O", "P", "Q", "R", "S", "T", "U", "V", "W", "X", "Y", "Z",
           "A'", "E'", "I'", "O'", "U'">>

LOWER == <<"a", "b", "c", "d", "e", "f", "g", "h", "i", "j", "k", "l", "m",
           "n", "o", "p", "q", "r", "s", "t", "u", "v", "w", "x", "y", "z",
           "a'", "e'", "i'", "o'", "u'">>

\* The precomposed letter of a vowel followed by the combining acute accent.
Composed(c) ==
    CASE c = "a" -> "a'" [] c = "e" -> "e'" [] c = "i" -> "i'"
      [] c = "o" -> "o'" [] c = "u" -> "u'"
      [] c = "A" -> "A'" [] c = "E" -> "E'" [] c = "I" -> "I'"
      [] c = "O" -> "O'" [] c = "U" -> "U'"

\* unicodedata.normalize("NFC", s)
RECURSIVE NFC(_)
NFC(s) ==
    IF Len(s) < 2 THEN s
    ELSE IF s[1] \in Vowels /\ s[2] = "'"
    THEN <<Composed(s[1])>> \o NFC(SubSeq(s, 3, Len(s)))
    ELSE <<s[1]>> \o NFC(Tail(s))

\* str.strip()
RECURSIVE strip(_)
strip(s) ==
    IF s = <<>> THEN s
    ELSE IF s[1] = " " THEN strip(Tail(s))
    ELSE IF s[Len(s)] = " " THEN strip(SubSeq(s, 1, Len(s) - 1))
    ELSE s

FoldChar(c) ==
    IF \E i \in 1..Len(UPPER) : UPPER[i] = c
    THEN LOWER[CHOOSE i \in 1..Len(UPPER) : UPPER[i] = c]
    ELSE c

\* str.casefold()
casefold(s) == [i \in 1..Len(s) |-> FoldChar(s[i])]

_normalize_form(s) == IF s = None THEN <<>> ELSE casefold(strip(NFC(s)))

--------------------------------------------------------------------------
(* The verb data.  FallbackVerbs is the list start_new_game substitutes    *)
(* when the lexicon cannot be loaded.  SampleVerbs is the "verbs" list of  *)
(* a data file: an irregular verb, a regular verb whose 2p form is stored  *)
(* decomposed (a + U+0301) and whose 3p form is stored capitalised with a  *)
(* trailing blank, a verb in -i'r with one form missing, and a verb        *)
(* listed without forms.                                                   *)

FallbackVerbs ==
    << <<"h", "a", "b", "l", "a", "r">>,
       <<"c", "o", "m", "e", "r">>,
       <<"v", "i", "v", "i", "r">>,
       <<"e", "s", "t", "u", "d", "i", "a", "r">>,
       <<"l", "e", "e", "r">>,
       <<"e", "s", "c", "r", "i", "b", "i", "r">>,
       <<"a", "m", "a", "r">>,
       <<"b", "e", "b", "e", "r">>,
       <<"a", "b", "r", "i", "r">>,
       <<"c", "o", "r", "r", "e", "r">>,
       <<"s", "a", "l", "t", "a", "r">>,
       <<"c", "a", "n", "t", "a", "r">> >>

ser    == <<"s", "e", "r">>
hablar == <<"h", "a", "b", "l", "a", "r">>
oir    == <<"o", "i'", "r">>
comer  == <<"c", "o", "m", "e", "r">>

SampleVerbs ==
    << [infinitive |-> ser,
        present_indicative |->
            ("1s" :> <<"s", "o", "y">> @@ "2s" :> <<"e", "r", "e", "s">> @@ "3s" :> <<"e", "s">> @@
             "1p" :> <<"s", "o", "m", "o", "s">> @@ "2p" :> <<"s", "o", "i", "s">> @@ "3p" :> <<"s", "o", "n">>)],
       [infinitive |-> hablar,
        present_indicative |->
            ("1s" :> <<"h", "a", "b", "l", "o">> @@ "2s" :> <<"h", "a", "b", "l", "a", "s">> @@ "3s" :> <<"h", "a", "b", "l", "a">> @@
             "1p" :> <<"h", "a", "b", "l", "a", "m", "o", "s">> @@
             "2p" :> <<"h", "a", "b", "l", "a", "'", "i", "s">> @@
             "3p" :> <<"H", "a", "b", "l", "a", "n", " ">>)],
       [infinitive |-> oir,
        present_indicative |->
            ("1s" :> <<"o", "i", "g", "o">> @@ "2s" :> <<"o", "y", "e", "s">> @@ "3s" :> <<"o", "y", "e">> @@
             "1p" :> <<"o", "i'", "m", "o", "s">> @@ "3p" :> <<"o", "y", "e", "n">>)],
       [infinitive |-> comer, present_indicative |-> << >>] >>

\* lexicon = None
NoLexicon == [present |-> FALSE, verbs |-> << >>]

\* a VerbLexicon whose load() succeeded
LoadedLexicon == [present |-> TRUE, verbs |-> SampleVerbs]

--------------------------------------------------------------------------
(* models.py *)

VARIABLES
    state,    \* the GameState: player, boss, major_round, subround, question,
              \* and the lexicon start_new_game attaches, as a reference;
              \* verb_pool, never assigned again, is PoolOf[state.lexicon]
    call,     \* the engine call made last, with its arguments
    outcome,  \* what that call returned
    plays     \* the plays resolved so far, won and lost (bounds the exploration)

vars == <<state, call, outcome, plays>>

VerbCard(infinitive) == [infinitive |-> infinitive]

Question(person) == [person |-> person]

Boss(name, hp, base_hp_per_subround) ==
    [name |-> name, hp |-> hp, base_hp_per_subround |-> base_hp_per_subround]

SkillCard(name, cost, triple_damage_on_directional, retain_on_play_50) ==
    [name |-> name, cost |-> cost,
     triple_damage_on_directional |-> triple_damage_on_directional,
     retain_on_play_50 |-> retain_on_play_50]

\* Player(): the dataclass defaults and __post_init__
Player ==
    [hp |-> 20, coins |-> 0, skills |-> << >>,
     hand_verbs |-> << >>, hand_rules |-> << >>,
     base_hand_verbs |-> 3, base_hand_rules |-> 3]

\* a next subround that also widens the verb hand
next_subround_larger_hand(st) ==
    [st EXCEPT !.subround = st.subround + 1,
               !.player.base_hand_verbs = st.player.base_hand_verbs + 1]

\* a next subround that leaves the counter as it is
same_subround(st) == st

\* GameState.next_subround
next_subround(st) == [st EXCEPT !.subround = st.subround + 1]

--------------------------------------------------------------------------
(* Bounds of the exploration *)

\* plays a caller of the engine has resolved
MaxPlays == 1
\* subrounds played in one game of cli.run_game, and those of them won
MaxSubrounds == 6
MaxWins == 3
\* last major round reached
MaxMajorRound == 3
\* a refresh draws its shuffles and its question from seeds 0..MaxSeed
MaxSeed == 1
\* indices a caller passes run from -1 to MaxIndex
MaxIndex == 3
\* upgrade options a caller passes run from 0 to MaxOption
MaxOption == 3
\* card numbers the player of cli.run_game types run from 0 to MaxTyped + 1
MaxTyped == 1

Seeds == 0..MaxSeed
Indices == -1..MaxIndex
Options == 0..MaxOption
Typed == -1..MaxTyped

--------------------------------------------------------------------------
(* The random module.  Every draw of a number takes each value of its      *)
(* range.  random.shuffle cuts the list at a point fixed by the seed of    *)
(* the refresh, and random_question picks the person the seed fixes.       *)

Rotate(s, k) ==
    IF s = << >> THEN s
    ELSE [i \in 1..Len(s) |-> s[((i - 1 + k) % Len(s)) + 1]]

\* the cuts of the three shuffles of a refresh, one row for each seed
ShuffleCuts == << <<0, 2, 19>>, <<3, 11, 11>>, <<0, 19, 16>> >>

\* the person random.choice(PERSONS) picks, as an index, for each seed
QuestionDraws == <<5, 6, 1>>

\* random.shuffle(s), the n-th shuffle of a refresh
shuffle(s, seed, n) == Rotate(s, ShuffleCuts[(seed % Len(ShuffleCuts)) + 1][n])

\* random_question()
random_question(seed) ==
    Question(PERSONS[QuestionDraws[(seed % Len(QuestionDraws)) + 1]])

\* random.randint(4, 7), random.randint(1, 3), random.randint(8, 12),
\* random.choice([-1, 0, 1]), random.random() < 0.5
DamageRolls == 4..7
CoinRolls   == 1..3
BonusRolls  == 8..12
AttackRolls == {-1, 0, 1}
CoinFlips   == BOOLEAN

--------------------------------------------------------------------------
(* The lexicons a game can start with, and what is fixed once one is chosen *)

Range(s) == {s[i] : i \in 1..Len(s)}

\* what state.lexicon refers to: the lexicon load() filled, or none
Lexicons == {"loaded", "none"}

LexiconOf(ref) == IF ref = "loaded" THEN LoadedLexicon ELSE NoLexicon

\* present_indicative_rules(lexicon), computed once for each lexicon
RuleUniverse == [lex \in Lexicons |-> present_indicative_rules(LexiconOf(lex))]

\* the verb_pool start_new_game builds
PoolOf ==
    [lex \in Lexicons |->
        IF LexiconOf(lex).present /\ list_infinitives(LexiconOf(lex)) # << >>
        THEN list_infinitives(LexiconOf(lex)) ELSE FallbackVerbs]

--------------------------------------------------------------------------
(* logic.py: start_new_game, refresh_hands *)

\* a hand dealt one card over its capacity
CycleOneMore(src, n) == [i \in 1..(n + 1) |-> src[((i - 1) % Len(src)) + 1]]

\* [src[i % len(src)] for i in range(n)]
Cycle(src, n) == [i \in 1..n |-> src[((i - 1) % Len(src)) + 1]]

\* not r.verb_infinitive
IsGeneric(r) == ~Truthy(r.verb_infinitive)

\* a filter that lets through every rule bound to a verb
IsBound(r, current_verbs) == Truthy(r.verb_infinitive)

\* r.verb_infinitive and r.verb_infinitive in current_verbs
IsRelevant(r, current_verbs) ==
    Truthy(r.verb_infinitive) /\ r.verb_infinitive \in current_verbs

\* the body of refresh_hands: pool_copy and all_rules are the shuffled copies
\* of state.verb_pool and of present_indicative_rules(lexicon)
DealFrom(pool_copy, all_rules, base_hand_verbs, base_hand_rules, seed) ==
    LET hand_verbs    == [i \in 1..base_hand_verbs |->
                             VerbCard(Cycle(pool_copy, base_hand_verbs)[i])]
        current_verbs == {hand_verbs[i].infinitive : i \in 1..Len(hand_verbs)}
        generic_rules == SelectSeq(all_rules, IsGeneric)
        irregular_rules ==
            SelectSeq(all_rules, LAMBDA r : IsRelevant(r, current_verbs))
        joined        == irregular_rules \o generic_rules
        rule_pool     == shuffle(IF Len(joined) < base_hand_rules
                                 THEN generic_rules ELSE joined, seed, 3)
    IN  [hand_verbs |-> hand_verbs,
         hand_rules |-> Cycle(rule_pool, base_hand_rules),
         question   |-> random_question(seed)]

\* the hands and the question refresh_hands deals to capacities base_hand_verbs
\* and base_hand_rules
Deal(lex, base_hand_verbs, base_hand_rules, seed) ==
    DealFrom(shuffle(PoolOf[lex], seed, 1), shuffle(RuleUniverse[lex], seed, 2),
             base_hand_verbs, base_hand_rules, seed)

\* the capacities a player can have
Capacities == Player.base_hand_verbs .. (Player.base_hand_verbs + MaxMajorRound)

\* Deal, computed once for every capacity and seed
DealOf ==
    [lex \in Lexicons |->
        [base_hand_verbs \in Capacities |->
            [base_hand_rules \in Capacities |->
                [seed \in Seeds |-> Deal(lex, base_hand_verbs, base_hand_rules, seed)]]]]

\* the assignments refresh_hands ends with
Dealt(st, d) ==
    [st EXCEPT !.player.hand_verbs = d.hand_verbs,
               !.player.hand_rules = d.hand_rules,
               !.question = d.question]

\* refresh_hands(state)
refresh_hands(st, seed) ==
    Dealt(st, DealOf[st.lexicon][st.player.base_hand_verbs][st.player.base_hand_rules][seed])

\* whether load() gave a lexicon with verbs in it
Usable(lex) == LexiconOf(lex).present /\ list_infinitives(LexiconOf(lex)) # << >>

\* start_new_game(): lex is the lexicon load() produced, "none" if it raised
start_new_game(lex, seed) ==
    refresh_hands(
        [player      |-> Player,
         boss        |-> Boss(<<"Boss">>, 20, 5),
         major_round |-> 1,
         subround    |-> 1,
         question    |-> random_question(seed),
         lexicon     |-> IF Usable(lex) THEN lex ELSE "none"],
        seed)

--------------------------------------------------------------------------
(* logic.py: resolve_play *)

\* max(0, hp) without its floor
Unclamped(a, b) == b

Max(a, b) == IF a >= b THEN a ELSE b

\* del seq[index], index counted from 0
DeleteAt(seq, index) ==
    [i \in 1..(Len(seq) - 1) |-> IF i <= index THEN seq[i] ELSE seq[i + 1]]

\* a counterattack that grows with every major round
boss_attack_by_round(st, choice) ==
    Max(1, 3 + (st.major_round - 1) + choice)

\* _boss_attack_damage(state), choice the value random.choice drew
_boss_attack_damage(st, choice) ==
    LET base == 3 + Max(0, (st.major_round - 1) \div 2)
    IN  Max(1, base + choice)

\* the dict resolve_play starts from (its message text is left out)
NewOutcome(p) ==
    [ok |-> TRUE, damage |-> 0, coins_gained |-> 0, boss_defeated |-> FALSE,
     player_damage |-> 0, player_dead |-> FALSE, player_hp |-> p.hp,
     produced |-> << >>, expected |-> << >>]

\* the index check of resolve_play
ValidIndices(st, verb_index, rule_index) ==
    /\ 0 <= verb_index /\ verb_index < Len(st.player.hand_verbs)
    /\ 0 <= rule_index /\ rule_index < Len(st.player.hand_rules)

\* success decided on the forms as they are written
SuccessAsWritten(ok_by_rule, temp, expected, rule, person) ==
    IF expected # << >>
    THEN temp = expected
    ELSE ok_by_rule /\ rule.person = person

\* success decided, where no form is expected, by the person of the rule alone
SuccessByPerson(ok_by_rule, temp, expected, rule, person) ==
    IF expected # << >>
    THEN _normalize_form(temp) = _normalize_form(expected)
    ELSE rule.person = person

\* whether the play succeeds: temp is the form produced, ok_by_rule whether
\* the rule applied
Success(ok_by_rule, temp, expected, rule, person) ==
    LET produced_matches_expected ==
            expected # << >> /\ _normalize_form(temp) = _normalize_form(expected)
    IN  IF expected # << >>
        THEN produced_matches_expected
        ELSE ok_by_rule /\ rule.person = person

\* the judgement of a play: what the rule produces, what is expected, and
\* whether the play succeeds
Judgement(lex, infinitive, rule, person) ==
    LET applied  == apply_rule_to_verb(infinitive, rule)
        expected == expected_present_form(infinitive, person, LexiconOf(lex))
    IN  [ok_by_rule |-> applied[1], produced |-> applied[2], expected |-> expected,
         success |-> Success(applied[1], applied[2], expected, rule, person)]

\* Judgement, computed once for every card of a game
JudgementOf ==
    [lex \in Lexicons |->
        [infinitive \in Range(PoolOf[lex]) |->
            [rule \in Range(RuleUniverse[lex]) |->
                [person \in PersonSet |-> Judgement(lex, infinitive, rule, person)]]]]

Judge(st, verb, rule) ==
    JudgementOf[st.lexicon][verb.infinitive][rule][st.question.person]


\* the arrow of a pattern
Arrow == <<"-", ">">>

\* a loop that triples the damage for every skill, whatever it can do
RECURSIVE ApplyEverySkill(_, _, _)
ApplyEverySkill(damage, skills, rule) ==
    IF skills = << >> THEN damage
    ELSE ApplyEverySkill(
             IF Contains(pattern(rule), Arrow) THEN damage * 3 ELSE damage,
             Tail(skills), rule)

\* the loop over player.skills that triples the damage
RECURSIVE ApplyDirectional(_, _, _)
ApplyDirectional(damage, skills, rule) ==
    IF skills = << >> THEN damage
    ELSE ApplyDirectional(
             IF Head(skills).triple_damage_on_directional
                /\ Contains(pattern(rule), Arrow)
             THEN damage * 3 ELSE damage,
             Tail(skills), rule)

\* whether some skill of the player can retain the played cards
HasRetain(skills) == \E i \in 1..Len(skills) : skills[i].retain_on_play_50

\* resolve_play past its index check: verb and rule are the cards played and
\* j their judgement
Played(st, verb_index, rule_index, rnd, rule, j) ==
    LET p       == st.player
        damage  == ApplyDirectional(IF j.success THEN rnd.roll ELSE 0, p.skills, rule)
        boss_hp == st.boss.hp - damage
        gain    == IF damage > 0 THEN rnd.gain ELSE 0
        pdmg    == IF damage > 0 THEN 0 ELSE _boss_attack_damage(st, rnd.attack)
        hp      == p.hp - pdmg
        player_dead == damage = 0 /\ hp <= 0
        retain  == HasRetain(p.skills) /\ rnd.flip
        defeated == boss_hp <= 0
        bonus   == IF defeated THEN rnd.bonus ELSE 0
    IN  [state |->
            [st EXCEPT
                !.boss.hp = boss_hp,
                !.player.hp = hp,
                !.player.coins = p.coins + gain + bonus,
                !.player.hand_verbs =
                    IF retain THEN p.hand_verbs
                    ELSE DeleteAt(p.hand_verbs, verb_index),
                !.player.hand_rules =
                    IF retain THEN p.hand_rules
                    ELSE DeleteAt(p.hand_rules, rule_index)],
         outcome |->
            [NewOutcome(p) EXCEPT
                !.produced = j.produced,
                !.expected = j.expected,
                !.damage = damage,
                !.coins_gained = gain,
                !.player_damage = pdmg,
                !.player_hp = IF damage > 0 THEN p.hp ELSE Max(0, hp),
                !.player_dead = player_dead,
                !.boss_defeated = defeated]]

\* an end of resolve_play that goes to the next subround whatever happened
ReturnedToNextSubround(r, seed) ==
    [r EXCEPT !.state = refresh_hands(next_subround(r.state), seed)]

\* the end of resolve_play: it returns at once when the boss is defeated or
\* the player is dead, and goes to the next subround otherwise
Returned(r, seed) ==
    IF r.outcome.boss_defeated \/ r.outcome.player_dead
    THEN r
    ELSE [r EXCEPT !.state = refresh_hands(next_subround(r.state), seed)]

\* a resolve_play that counts a rejected selection as a subround
resolve_play_counting_rejected(st, verb_index, rule_index, rnd) ==
    IF ~ValidIndices(st, verb_index, rule_index)
    THEN [state |-> next_subround(st),
          outcome |-> [NewOutcome(st.player) EXCEPT !.ok = FALSE]]
    ELSE Returned(
             Played(st, verb_index, rule_index, rnd,
                    st.player.hand_rules[rule_index + 1],
                    Judge(st, st.player.hand_verbs[verb_index + 1],
                          st.player.hand_rules[rule_index + 1])),
             rnd.seed)

\* resolve_play(state, verb_index, rule_index): the state it leaves and the
\* outcome it returns, rnd holding the values its random draws took
resolve_play(st, verb_index, rule_index, rnd) ==
    IF ~ValidIndices(st, verb_index, rule_index)
    THEN [state |-> st, outcome |-> [NewOutcome(st.player) EXCEPT !.ok = FALSE]]
    ELSE Returned(
             Played(st, verb_index, rule_index, rnd,
                    st.player.hand_rules[rule_index + 1],
                    Judge(st, st.player.hand_verbs[verb_index + 1],
                          st.player.hand_rules[rule_index + 1])),
             rnd.seed)

\* the values the random draws of a play judged j can take: a draw the call
\* does not reach is written 0
DrawsOf(st, rule, j) ==
    LET p == st.player
        Defeats(roll) == st.boss.hp - ApplyDirectional(roll, p.skills, rule) <= 0
        Ends(roll, attack) ==
            \/ Defeats(roll)
            \/ (~j.success /\ p.hp - _boss_attack_damage(st, attack) <= 0)
    IN  UNION {
          UNION {
            {[roll |-> ro, gain |-> g, attack |-> a, flip |-> f, bonus |-> b,
              seed |-> sd] :
                g  \in IF j.success THEN CoinRolls ELSE {0},
                f  \in IF HasRetain(p.skills) THEN CoinFlips ELSE {FALSE},
                b  \in IF Defeats(ro) THEN BonusRolls ELSE {0},
                sd \in IF Ends(ro, a) THEN {0} ELSE Seeds} :
            a \in IF j.success THEN {0} ELSE AttackRolls} :
          ro \in IF j.success THEN DamageRolls ELSE {0}}

\* the values the random draws of one resolve_play can take
Draws(st, verb_index, rule_index) ==
    IF ~ValidIndices(st, verb_index, rule_index)
    THEN {[roll |-> 0, gain |-> 0, attack |-> 0, flip |-> FALSE, bonus |-> 0,
           seed |-> 0]}
    ELSE DrawsOf(st, st.player.hand_rules[rule_index + 1],
                 Judge(st, st.player.hand_verbs[verb_index + 1],
                       st.player.hand_rules[rule_index + 1]))

--------------------------------------------------------------------------
(* logic.py: shop_buy_direction_skill, choose_upgrade *)

\* the purchase: 10 coins for one skill that triples directional damage
Bought(st) ==
    [st EXCEPT
        !.player.coins = st.player.coins - 10,
        !.player.skills =
            Append(st.player.skills, SkillCard("direction", 10, TRUE, FALSE))]

\* a shop that sells only to a player with more than the price
shop_buy_above_price(st) ==
    IF st.player.coins > 10
    THEN [state |-> Bought(st), outcome |-> TRUE]
    ELSE [state |-> st, outcome |-> FALSE]

\* a shop that sells to a player whatever the coins
shop_on_credit(st) == [state |-> Bought(st), outcome |-> TRUE]

\* shop_buy_direction_skill(state): the state it leaves and what it returns
shop_buy_direction_skill(st) ==
    IF st.player.coins >= 10
    THEN [state |-> Bought(st), outcome |-> TRUE]
    ELSE [state |-> st, outcome |-> FALSE]

\* a next major round whose boss is scaled by the round that ended
NextMajorRoundOldBoss(st) ==
    [st EXCEPT
        !.major_round = st.major_round + 1,
        !.subround = 1,
        !.boss = Boss(<<"Boss R", st.major_round>>, 20 + 10 * (st.major_round - 1),
                      5 + 2 * (st.major_round - 1))]

\* a next major round that the player begins at full hp
NextMajorRoundHealed(st) ==
    [st EXCEPT
        !.major_round = st.major_round + 1,
        !.subround = 1,
        !.player.hp = Player.hp,
        !.boss = Boss(<<"Boss R", st.major_round + 1>>, 20 + 10 * st.major_round,
                      5 + 2 * st.major_round)]

\* the first part of choose_upgrade: the next major round and its boss
NextMajorRound(st) ==
    LET major_round == st.major_round + 1
    IN  [st EXCEPT
            !.major_round = major_round,
            !.subround = 1,
            !.boss = Boss(<<"Boss R", major_round>>, 20 + 10 * (major_round - 1),
                          5 + 2 * (major_round - 1))]

\* the effect of the upgrade, option one of 1, 2, 3
Upgraded(st, option) ==
    IF option = 1
    THEN [st EXCEPT !.player.base_hand_verbs = st.player.base_hand_verbs + 1]
    ELSE IF option = 2
    THEN [st EXCEPT !.player.base_hand_rules = st.player.base_hand_rules + 1]
    ELSE IF option = 3
    THEN [st EXCEPT !.player.skills =
              Append(st.player.skills, SkillCard("retain", 0, FALSE, TRUE))]
    ELSE st

\* a choose_upgrade that takes the option as it is given
choose_upgrade_as_given(st, option, pick, seed) ==
    refresh_hands(Upgraded(NextMajorRound(st), option), seed)

\* choose_upgrade(state, option), pick the value random.choice([1, 2, 3])
\* takes when it is drawn, seed the seed of the refresh
choose_upgrade(st, option, pick, seed) ==
    refresh_hands(
        Upgraded(NextMajorRound(st),
                 IF option \notin {1, 2, 3} THEN pick ELSE option),
        seed)

--------------------------------------------------------------------------
(* The engine under any caller: the three calls logic.py offers, in any    *)
(* order, with the last call and what it returned kept in call and         *)
(* outcome.  call.retain is what the coin flips of the retention check     *)
(* came to.                                                                *)

\* the selections a caller makes: any two cards of the hands, and the
\* selections with one index out of range and the other 0
Selections(st, indices) ==
    {sel \in indices \X indices :
        ValidIndices(st, sel[1], sel[2]) \/ sel[1] = 0 \/ sel[2] = 0}

Init ==
    /\ \E lex \in Lexicons, seed \in Seeds : state = start_new_game(lex, seed)
    /\ call = [fn |-> "start_new_game"]
    /\ outcome = None
    /\ plays = [won |-> 0, lost |-> 0]

\* a caller whose selection was rejected makes no further call
Rejected == call.fn = "resolve_play" /\ ~outcome.ok

\* plays after a call that returned outcome o
Counted(o) ==
    IF ~o.ok THEN plays
    ELSE IF o.damage > 0 THEN [plays EXCEPT !.won = plays.won + 1]
    ELSE [plays EXCEPT !.lost = plays.lost + 1]

\* the step of a resolve_play(verb_index, rule_index) that returned r
Resolved(verb_index, rule_index, rnd, r) ==
    /\ state' = r.state
    /\ outcome' = r.outcome
    /\ call' = [fn |-> "resolve_play", verb_index |-> verb_index,
                rule_index |-> rule_index, retain |-> rnd.flip]
    /\ plays' = Counted(r.outcome)

ResolvePlay ==
    /\ ~Rejected
    /\ \E sel \in Selections(state, Indices) :
        /\ ValidIndices(state, sel[1], sel[2])
            => plays.won + plays.lost < MaxPlays
        /\ \E rnd \in Draws(state, sel[1], sel[2]) :
            Resolved(sel[1], sel[2], rnd,
                     resolve_play(state, sel[1], sel[2], rnd))

ShopBuyDirectionSkill ==
    /\ ~Rejected
    /\ LET r == shop_buy_direction_skill(state)
       IN  /\ state' = r.state
           /\ outcome' = r.outcome
    /\ call' = [fn |-> "shop_buy_direction_skill"]
    /\ UNCHANGED plays

ChooseUpgrade ==
    /\ ~Rejected
    /\ state.major_round < MaxMajorRound
    /\ \E option \in Options, seed \in Seeds :
        /\ \E pick \in IF option \in {1, 2, 3} THEN {option} ELSE {1, 2, 3} :
               state' = choose_upgrade(state, option, pick, seed)
        /\ call' = [fn |-> "choose_upgrade", option |-> option]
    /\ outcome' = None
    /\ UNCHANGED plays

Next == ResolvePlay \/ ShopBuyDirectionSkill \/ ChooseUpgrade

Spec == Init /\ [][Next]_vars

--------------------------------------------------------------------------
(* cli.run_game: the loop over play_subround, end_of_major_round and       *)
(* between_subround_shop.  call holds the wrapper that ran last; outcome   *)
(* holds, of a play, the fields of the outcome play_subround branches on   *)
(* and the remaining hp it prints, and of a purchase what the shop         *)
(* returned.                                                               *)

Verdict(o) ==
    [ok |-> o.ok, boss_defeated |-> o.boss_defeated,
     player_dead |-> o.player_dead, player_hp |-> o.player_hp]

\* play_subround returned (True, _)
Survived == call.fn = "play_subround" /\ outcome.ok /\ ~outcome.player_dead

\* play_subround returned (True, True)
Defeated == Survived /\ outcome.boss_defeated

\* what the player types at the shop and at the upgrade prompt
ShopChoices == {"1", "2"}
UpgradeChoices == {"1", "2", "3", ""}

\* mapping.get(choice, 0) of end_of_major_round
UpgradeOption(choice) ==
    IF choice = "1" THEN 1 ELSE IF choice = "2" THEN 2
    ELSE IF choice = "3" THEN 3 ELSE 0

\* the step of a play_subround whose resolve_play returned r
Shown(r) ==
    /\ r.outcome.damage > 0 => plays.won < MaxWins
    /\ state' = r.state
    /\ outcome' = Verdict(r.outcome)
    /\ plays' = Counted(r.outcome)

play_subround ==
    /\ call.fn # "play_subround"
    /\ \E sel \in Selections(state, Typed) :
        /\ ValidIndices(state, sel[1], sel[2])
            => plays.won + plays.lost < MaxSubrounds
        /\ \E rnd \in Draws(state, sel[1], sel[2]) :
            Shown(resolve_play(state, sel[1], sel[2], rnd))
    /\ call' = [fn |-> "play_subround"]

between_subround_shop ==
    /\ Survived /\ ~Defeated
    /\ \E choice \in ShopChoices :
        /\ IF choice = "1"
           THEN LET r == shop_buy_direction_skill(state)
                IN  /\ state' = r.state
                    /\ outcome' = r.outcome
           ELSE /\ state' = state
                /\ outcome' = None
        /\ call' = [fn |-> "between_subround_shop", choice |-> choice]
    /\ UNCHANGED plays

end_of_major_round ==
    /\ Defeated
    /\ state.major_round < MaxMajorRound
    /\ \E choice \in UpgradeChoices, seed \in Seeds :
        LET option == UpgradeOption(choice)
        IN  \E pick \in IF option \in {1, 2, 3} THEN {option} ELSE {1, 2, 3} :
                state' = choose_upgrade(state, option, pick, seed)
    /\ call' = [fn |-> "end_of_major_round"]
    /\ outcome' = None
    /\ UNCHANGED plays

run_game == play_subround \/ between_subround_shop \/ end_of_major_round

SpecCli == Init /\ [][run_game]_vars

--------------------------------------------------------------------------
(* What the calls of a step were given.  In these a primed variable is the *)
(* value after the call and an unprimed one the value before it.           *)

\* the step is a resolve_play that passed the index check
Play == call'.fn = "resolve_play" /\ outcome'.ok

\* the cards that step played
PlayedVerb == state.player.hand_verbs[call'.verb_index + 1]
PlayedRule == state.player.hand_rules[call'.rule_index + 1]

\* the step is a play_subround whose resolve_play passed the index check
Subround == call'.fn = "play_subround" /\ outcome'.ok

\* the step is a choose_upgrade
Upgrade == call'.fn = "choose_upgrade"

\* the step is a purchase at the shop of cli.run_game
Purchase == call'.fn = "between_subround_shop" /\ call'.choice = "1"

\* after is before, or before with one card taken out
LeftOf(before, after) ==
    \/ after = before
    \/ \E index \in 0..(Len(before) - 1) : after = DeleteAt(before, index)

\* no subround began in the step: the counter, the question and the hands
\* are those of before, less the cards played
NoNewSubround ==
    /\ state'.subround = state.subround
    /\ state'.question = state.question
    /\ LeftOf(state.player.hand_verbs, state'.player.hand_verbs)
    /\ LeftOf(state.player.hand_rules, state'.player.hand_rules)

--------------------------------------------------------------------------
(* C1 *)

\* C1: in every state reached from start_new_game by resolve_play,
\* shop_buy_direction_skill and choose_upgrade calls, neither hand holds more
\* cards than its capacity.
C1_HandsWithinCapacity ==
    /\ Len(state.player.hand_verbs) <= state.player.base_hand_verbs
    /\ Len(state.player.hand_rules) <= state.player.base_hand_rules

\* a play resolved after an upgrade raised the capacity of the rule hand
C1_PlayedWithLargerHand ==
    /\ call.fn = "resolve_play" /\ outcome.ok
    /\ state.player.base_hand_rules = Player.base_hand_rules + 1
    /\ Len(state.player.hand_rules) = state.player.base_hand_rules

--------------------------------------------------------------------------
(* C2 *)

\* C2: a resolve_play whose verb_index or rule_index is out of range returns
\* ok = false and leaves the whole GameState as it was.
C2_InvalidSelectionRejected ==
    [][(call'.fn = "resolve_play"
          /\ ~ValidIndices(state, call'.verb_index, call'.rule_index))
       => (~outcome'.ok /\ state' = state)]_vars

\* a selection was rejected because its verb_index is the size of the hand
C2_RejectedAtHandSize ==
    /\ call.fn = "resolve_play" /\ ~outcome.ok
    /\ call.verb_index = Len(state.player.hand_verbs)
    /\ call.rule_index = 0

--------------------------------------------------------------------------
(* C3 *)

--------------------------------------------------------------------------
(* C4 *)

\* C4: a failed play whose counterattack leaves the player at hp <= 0
\* reports player_dead and player_hp = 0, and begins no subround: the
\* counter, the question and the hands stay.
C4_PlayerDeath ==
    [][(Subround /\ state'.player.hp <= 0)
       => /\ outcome'.player_dead
          /\ outcome'.player_hp = 0
          /\ NoNewSubround]_vars

\* the player died of a counterattack that took hp below 0
C4_PlayerDeadBelowZero ==
    /\ call.fn = "play_subround" /\ outcome.ok /\ outcome.player_dead
    /\ state.player.hp < 0
    /\ state.subround = plays.won + plays.lost

--------------------------------------------------------------------------
(* C5 *)

\* C5: when the player owns a retention skill and its coin flip comes up
\* true, the verb card and the rule card played are still in the hands when
\* resolve_play returns.  The engine does not satisfy it: a play that neither
\* defeats the boss nor kills the player ends in refresh_hands, which deals
\* both hands anew whatever the retention check decided.
C5_RetainedCardsStay ==
    [][(Play /\ HasRetain(state.player.skills) /\ call'.retain)
       => /\ PlayedVerb \in Range(state'.player.hand_verbs)
          /\ PlayedRule \in Range(state'.player.hand_rules)]_vars

--------------------------------------------------------------------------
(* C6 *)

\* C6: for every option, choose_upgrade adds 1 to major_round, sets subround
\* to 1, and replaces the boss by one of hp 20 + 10 * (major_round - 1) and
\* subround damage 5 + 2 * (major_round - 1), major_round the new one; the
\* hp and the coins of the player stay.
C6_UpgradeStartsRound ==
    [][Upgrade
       => /\ state'.major_round = state.major_round + 1
          /\ state'.subround = 1
          /\ state'.boss.hp = 20 + 10 * (state'.major_round - 1)
          /\ state'.boss.base_hp_per_subround = 5 + 2 * (state'.major_round - 1)
          /\ state'.player.hp = state.player.hp
          /\ state'.player.coins = state.player.coins]_vars

\* an upgrade with an option outside 1..3, after a play was lost and paid
C6_UpgradedAfterLoss ==
    /\ call.fn = "choose_upgrade" /\ call.option = 0
    /\ state.major_round = 2 /\ state.subround = 1
    /\ state.boss.hp = 30
    /\ plays.lost = 1 /\ state.player.hp < Player.hp

--------------------------------------------------------------------------
(* C7 *)

\* C7: choose_upgrade has exactly one of three effects: option 1 adds 1 to
\* base_hand_verbs, option 2 adds 1 to base_hand_rules, option 3 appends one
\* retention skill, each leaving the other two alone; any other option does
\* as one of the three.  The hands it leaves are dealt to the new
\* capacities.
C7_UpgradeOneEffect ==
    [][Upgrade
       => LET p == state.player
              q == state'.player
              MoreVerbs == /\ q.base_hand_verbs = p.base_hand_verbs + 1
                           /\ q.base_hand_rules = p.base_hand_rules
                           /\ q.skills = p.skills
              MoreRules == /\ q.base_hand_rules = p.base_hand_rules + 1
                           /\ q.base_hand_verbs = p.base_hand_verbs
                           /\ q.skills = p.skills
              Retention == /\ Len(q.skills) = Len(p.skills) + 1
                           /\ SubSeq(q.skills, 1, Len(p.skills)) = p.skills
                           /\ q.skills[Len(q.skills)].retain_on_play_50
                           /\ q.base_hand_verbs = p.base_hand_verbs
                           /\ q.base_hand_rules = p.base_hand_rules
          IN  /\ call'.option = 1 => MoreVerbs
              /\ call'.option = 2 => MoreRules
              /\ call'.option = 3 => Retention
              /\ MoreVerbs \/ MoreRules \/ Retention
              /\ Len(q.hand_verbs) = q.base_hand_verbs
              /\ Len(q.hand_rules) = q.base_hand_rules]_vars

\* an option outside 1..3 came to a larger verb hand, dealt in full
C7_UnknownOptionMoreVerbs ==
    /\ call.fn = "choose_upgrade" /\ call.option = 0
    /\ state.player.base_hand_verbs = Player.base_hand_verbs + 1
    /\ Len(state.player.hand_verbs) = Player.base_hand_verbs + 1
    /\ state.player.skills = << >>

--------------------------------------------------------------------------
(* C8 *)

\* C8: shop_buy_direction_skill with 10 coins or more takes exactly 10
\* coins, appends exactly one triple-damage skill and returns true, one
\* skill for each purchase; with fewer it returns false and leaves coins and
\* skills alone.  Either way the hands, the hp, the boss and the round
\* counters stay.
C8_ShopPurchase ==
    [][Purchase
       => LET p == state.player
              q == state'.player
          IN  /\ p.coins >= 10
                 => /\ outcome' = TRUE
                    /\ q.coins = p.coins - 10
                    /\ Len(q.skills) = Len(p.skills) + 1
                    /\ SubSeq(q.skills, 1, Len(p.skills)) = p.skills
                    /\ q.skills[Len(q.skills)].triple_damage_on_directional
              /\ p.coins < 10
                 => /\ outcome' = FALSE
                    /\ q.coins = p.coins
                    /\ q.skills = p.skills
              /\ q.hand_verbs = p.hand_verbs
              /\ q.hand_rules = p.hand_rules
              /\ q.hp = p.hp
              /\ state'.boss = state.boss
              /\ state'.major_round = state.major_round
              /\ state'.subround = state.subround]_vars

\* a second purchase went through: two triple-damage skills are owned
C8_BoughtTwice ==
    /\ call.fn = "between_subround_shop" /\ call.choice = "1"
    /\ outcome = TRUE
    /\ Len(state.player.skills) >= 2
    /\ Cardinality({i \in 1..Len(state.player.skills) :
                       state.player.skills[i].triple_damage_on_directional}) = 2

--------------------------------------------------------------------------
(* C9 *)

\* C9: a play with valid indices succeeds, with a base damage of 4 to 7,
\* exactly when the expected form of the verb for the person asked is not
\* empty and equals the produced form once both are normalized, or the
\* expected form is empty, the rule applies to the verb and the person of
\* the rule is the person asked; otherwise the base damage is 0.
C9_SuccessCondition ==
    [][Play
       => LET verb     == PlayedVerb.infinitive
              person   == state.question.person
              applied  == apply_rule_to_verb(verb, PlayedRule)
              expected == expected_present_form(verb, person,
                                                LexiconOf(state.lexicon))
              wins     ==
                  \/ /\ expected # << >>
                     /\ _normalize_form(applied[2]) = _normalize_form(expected)
                  \/ /\ expected = << >>
                     /\ applied[1]
                     /\ PlayedRule.person = person
          IN  IF wins THEN outcome'.damage \in 4..7
              ELSE outcome'.damage = 0]_vars

\* a play won though the produced form is not, as written, the expected one
C9_WonByNormalizedForm ==
    /\ call.fn = "resolve_play" /\ outcome.ok
    /\ outcome.damage \in 4..7
    /\ outcome.expected # << >>
    /\ outcome.produced # outcome.expected

--------------------------------------------------------------------------
(* C10 *)

-----------------------------------------------------------------------------------------------------------------------------------------------
(* rules.py called on its own, before any game: the generator, the applier *)
(* and the expectation resolver, on the lexicons of the game and on verbs  *)
(* and rule cards a caller can write.  call holds the function and its     *)
(* arguments, outcome is None until the function has returned.             *)

\* infinitives a caller passes: those of the pools, and some with no verb
\* ending, with nothing but an ending, or empty
Infinitives ==
    Range(FallbackVerbs) \cup Range(PoolOf["loaded"])
        \cup {ir, ar, << >>, <<"s", "o", "l">>, <<"p", "o", "n", "e", "r", "s", "e">>}

\* persons a caller passes: the six of PERSONS and one that is none of them
AskedPersons == PersonSet \cup {"vos"}

\* rule cards a caller writes, field by field
WrittenRules ==
    {RuleCard("1s", sf, st, ef, et, vi) :
        sf \in {None, << >>, <<"h", "a", "b", "l">>},
        st \in {None, <<"h", "a", "b", "l">>, <<"h", "a">>},
        ef \in {None, ar, ir, <<"r">>},
        et \in {None, << >>, <<"o">>},
        vi \in {None, << >>, hablar}}

\* rule cards a caller passes: those the generator makes, and the written ones
PlayableRules == Range(RuleUniverse["loaded"]) \cup WrittenRules

\* the calls of rules.py a caller makes
RuleCalls ==
    {[fn |-> "present_indicative_rules", lexicon |-> lex] : lex \in Lexicons}
    \cup {[fn |-> "apply_rule_to_verb", infinitive |-> infinitive, rule |-> rule] :
             infinitive \in Infinitives, rule \in PlayableRules}
    \cup {[fn |-> "expected_present_form", infinitive |-> infinitive,
           person |-> person, lexicon |-> lex] :
             infinitive \in Infinitives, person \in AskedPersons, lex \in Lexicons}

InitRules ==
    /\ state = None
    /\ call \in RuleCalls
    /\ outcome = None
    /\ plays = [won |-> 0, lost |-> 0]

PresentIndicativeRules ==
    /\ call.fn = "present_indicative_rules" /\ outcome = None
    /\ outcome' = RuleUniverse[call.lexicon]
    /\ UNCHANGED <<state, call, plays>>

ApplyRuleToVerb ==
    /\ call.fn = "apply_rule_to_verb" /\ outcome = None
    /\ outcome' = apply_rule_to_verb(call.infinitive, call.rule)
    /\ UNCHANGED <<state, call, plays>>

ExpectedPresentForm ==
    /\ call.fn = "expected_present_form" /\ outcome = None
    /\ outcome' = expected_present_form(call.infinitive, call.person,
                                        LexiconOf(call.lexicon))
    /\ UNCHANGED <<state, call, plays>>

NextRules == PresentIndicativeRules \/ ApplyRuleToVerb \/ ExpectedPresentForm

SpecRules == InitRules /\ [][NextRules]_vars

--------------------------------------------------------------------------
(* C11 *)

\* rule is the card the generator makes of the form the entry v of the
\* lexicon records for person, a form that is not empty
GeneratedFor(rule, v, person) ==
    /\ Truthy(v.infinitive)
    /\ Truthy(FormsGet(v.present_indicative, person))
    /\ rule \in Range(RuleUniverse["loaded"])
    /\ rule.verb_infinitive = v.infinitive
    /\ rule.person = person

\* C11: for every entry (infinitive, person, form) of the lexicon with a
\* form that is not empty, the irregular rule present_indicative_rules
\* generates for it, applied by apply_rule_to_verb to that infinitive,
\* succeeds and returns the recorded form.  The rules do not satisfy it: the
\* generator gives a verb that ends in none of ar, er, ir its last two
\* letters as ending_from, and the applier refuses every such verb.
C11_RoundTrip ==
    (call.fn = "apply_rule_to_verb" /\ outcome # None)
    => \A k \in 1..Len(LoadedLexicon.verbs), person \in PersonSet :
           (/\ GeneratedFor(call.rule, LoadedLexicon.verbs[k], person)
            /\ call.infinitive = LoadedLexicon.verbs[k].infinitive)
           => outcome = <<TRUE, FormsGet(LoadedLexicon.verbs[k].present_indicative,
                                         person)>>

--------------------------------------------------------------------------
(* C12 *)

\* C12: apply_rule_to_verb returns (False, infinitive) when the rule is
\* bound to another infinitive, the infinitive ends in none of ar, er, ir,
\* the ending_from of the rule is none of ar, er, ir or is not the ending of
\* the infinitive, or the stem_from of the rule is not the bare stem; in
\* every other case it returns True with (stem_to if given, else the bare
\* stem) followed by (ending_to if given, else the ending), so that a rule
\* with no field set returns the infinitive.
C12_ApplyContract ==
    (call.fn = "apply_rule_to_verb" /\ outcome # None)
    => LET infinitive == call.infinitive
           rule   == call.rule
           class  == {e \in {ar, er, ir} : endswith(infinitive, e)}
           ending == CHOOSE e \in class : TRUE
           stem   == SubSeq(infinitive, 1, Len(infinitive) - 2)
           bound_elsewhere ==
               rule.verb_infinitive \notin {None, << >>, infinitive}
           refused ==
               \/ bound_elsewhere
               \/ class = {}
               \/ rule.ending_from # None /\ rule.ending_from \notin {ar, er, ir}
               \/ rule.ending_from # None /\ rule.ending_from \notin class
               \/ rule.stem_from # None /\ rule.stem_from # stem
       IN  /\ refused => outcome = <<FALSE, infinitive>>
           /\ ~refused =>
                 outcome = <<TRUE,
                             (IF rule.stem_to # None THEN rule.stem_to ELSE stem)
                             \o (IF rule.ending_to # None THEN rule.ending_to
                                 ELSE ending)>>
           /\ (~refused /\ rule.stem_from = None /\ rule.stem_to = None
                 /\ rule.ending_from = None /\ rule.ending_to = None)
              => outcome = <<TRUE, infinitive>>

\* a written rule whose stem_from is the bare stem was applied and changed
\* both the stem and the ending
C12_AppliedStemChange ==
    /\ call.fn = "apply_rule_to_verb"
    /\ call.infinitive = hablar
    /\ call.rule.stem_from = <<"h", "a", "b", "l">>
    /\ call.rule.verb_infinitive = None
    /\ outcome = <<TRUE, <<"h", "a", "o">> >>

--------------------------------------------------------------------------
(* C13 *)

\* the regular suffixes of the three classes, for the six persons in order
SuffixTable ==
    [class \in {ar, er, ir} |->
        IF class = ar
        THEN << <<"o">>, <<"a", "s">>, <<"a">>, <<"a", "m", "o", "s">>,
                <<"a'", "i", "s">>, <<"a", "n">> >>
        ELSE IF class = er
        THEN << <<"o">>, <<"e", "s">>, <<"e">>, <<"e", "m", "o", "s">>,
                <<"e'", "i", "s">>, <<"e", "n">> >>
        ELSE << <<"o">>, <<"e", "s">>, <<"e">>, <<"i", "m", "o", "s">>,
                <<"i'", "s">>, <<"e", "n">> >>]

\* C13: with no lexicon, expected_present_form of an infinitive in ar, er or
\* ir and one of the six persons is the bare stem followed by the regular
\* suffix of the class for the person; for another person, or an infinitive
\* with none of the three endings, it is the empty string.
C13_RegularExpectedForm ==
    (call.fn = "expected_present_form" /\ call.lexicon = "none" /\ outcome # None)
    => LET infinitive == call.infinitive
           class == {e \in {ar, er, ir} : endswith(infinitive, e)}
           order == <<"1s", "2s", "3s", "1p", "2p", "3p">>
       IN  IF class # {} /\ \E i \in 1..6 : order[i] = call.person
           THEN outcome =
                    SubSeq(infinitive, 1, Len(infinitive) - 2)
                    \o SuffixTable[CHOOSE e \in class : TRUE]
                                  [CHOOSE i \in 1..6 : order[i] = call.person]
           ELSE outcome = << >>

\* the 2p form of a verb in ir was asked without a lexicon
C13_ExpectedOfVivir ==
    /\ call.fn = "expected_present_form" /\ call.lexicon = "none"
    /\ call.infinitive = <<"v", "i", "v", "i", "r">>
    /\ call.person = "2p"
    /\ outcome = <<"v", "i", "v", "i'", "s">>

--------------------------------------------------------------------------
(* logic.py: get_view *)

\* the text get_view shows for a rule card: its pattern, followed for a card
\* bound to a verb by " (<U+4EC5><infinitive>)", the character U+4EC5
\* written "only"
RuleText(r) ==
    pattern(r) \o (IF Truthy(r.verb_infinitive)
                   THEN <<" ", "(", "only">> \o r.verb_infinitive \o <<")">>
                   ELSE << >>)

\* the dict get_view builds
Snapshot(st) ==
    [major_round |-> st.major_round,
     subround |-> st.subround,
     boss |-> [name |-> st.boss.name, hp |-> st.boss.hp],
     player |->
        [hp |-> st.player.hp,
         coins |-> st.player.coins,
         skills |-> [i \in 1..Len(st.player.skills) |-> st.player.skills[i].name],
         verbs |-> [i \in 1..Len(st.player.hand_verbs) |->
                       st.player.hand_verbs[i].infinitive],
         rules |-> [i \in 1..Len(st.player.hand_rules) |->
                       RuleText(st.player.hand_rules[i])]],
     question |-> st.question.person]

\* a get_view that begins a subround each time the state is shown
get_view_next_subround(st) ==
    [state |-> next_subround(st), outcome |-> Snapshot(st)]

\* get_view(state): the state it leaves and the dict it returns
get_view(st) == [state |-> st, outcome |-> Snapshot(st)]

--------------------------------------------------------------------------
(* The engine through a whole game under any caller: the four calls of     *)
(* logic.py's API in any order, also after the boss is defeated or the     *)
(* player is dead.  call holds the last call; outcome holds what it        *)
(* returned, of a play the fields of the outcome a caller branches on and  *)
(* the remaining hp it shows.                                              *)

\* the games followed are those whose plays are all won, MaxWon of them at
\* most, and those whose plays are all lost, MaxLost of them at most
MaxWon == 4
MaxLost == 6
\* the major round a game reaches at most
MaxRound == 2

\* the step of a resolve_play(verb_index, rule_index) that returned r
Answered(verb_index, rule_index, r) ==
    /\ r.outcome.damage > 0 => (plays.won < MaxWon /\ plays.lost = 0)
    /\ r.outcome.damage = 0 => (plays.lost < MaxLost /\ plays.won = 0)
    /\ state' = r.state
    /\ outcome' = Verdict(r.outcome)
    /\ call' = [fn |-> "resolve_play", verb_index |-> verb_index,
                rule_index |-> rule_index]
    /\ plays' = Counted(r.outcome)

CallResolvePlay ==
    \E sel \in Selections(state, Typed) :
        /\ ValidIndices(state, sel[1], sel[2])
        /\ \E rnd \in Draws(state, sel[1], sel[2]) :
            Answered(sel[1], sel[2],
                     resolve_play(state, sel[1], sel[2], rnd))

CallShopBuyDirectionSkill ==
    /\ LET r == shop_buy_direction_skill(state)
       IN  /\ state' = r.state
           /\ outcome' = r.outcome
    /\ call' = [fn |-> "shop_buy_direction_skill"]
    /\ UNCHANGED plays

CallChooseUpgrade ==
    /\ state.major_round < MaxRound
    /\ \E option \in Options, seed \in Seeds :
        /\ \E pick \in IF option \in {1, 2, 3} THEN {option} ELSE {1, 2, 3} :
               state' = choose_upgrade(state, option, pick, seed)
        /\ call' = [fn |-> "choose_upgrade", option |-> option]
    /\ outcome' = None
    /\ UNCHANGED plays

CallGetView ==
    /\ LET r == get_view(state)
       IN  /\ state' = r.state
           /\ outcome' = r.outcome
    /\ call' = [fn |-> "get_view"]
    /\ UNCHANGED plays

NextApi ==
    CallResolvePlay \/ CallShopBuyDirectionSkill \/ CallChooseUpgrade \/ CallGetView

SpecApi == Init /\ [][NextApi]_vars

--------------------------------------------------------------------------
(* Claims about a play, the capacities and the deal *)

\* C14: every resolve_play with valid indices does exactly one of two
\* things.  Either its final damage is above 0: the boss loses that damage,
\* the play is rewarded 1 to 3 coins (the coins grow by the reward, and by
\* the defeat bonus if the boss is defeated) and the hp of the player stays.
\* Or its damage is 0: the hp of the boss and the coins stay, no reward is
\* given, and the player loses max(1, 3 + floor((major_round - 1) / 2) + d)
\* hp for some d in {-1, 0, 1}.
C14_PlayHitsOneSide ==
    [][Play =>
        LET damage == outcome'.damage
            reward == outcome'.coins_gained
            bonus  == state'.player.coins - state.player.coins - reward
        IN  \/ /\ damage > 0
               /\ state'.boss.hp = state.boss.hp - damage
               /\ reward \in 1..3
               /\ IF outcome'.boss_defeated THEN bonus \in 8..12 ELSE bonus = 0
               /\ state'.player.hp = state.player.hp
            \/ /\ damage = 0
               /\ state'.boss.hp = state.boss.hp
               /\ reward = 0
               /\ state'.player.coins = state.player.coins
               /\ \E d \in {-1, 0, 1} :
                      state'.player.hp =
                          state.player.hp
                          - Max(1, 3 + ((state.major_round - 1) \div 2) + d)]_vars

\* a play lost in major round 3 cost the player 5 hp: 3, 1 for the round
\* and 1 drawn
C14_LostFiveInRoundThree ==
    /\ call.fn = "resolve_play"
    /\ outcome.ok
    /\ outcome.damage = 0
    /\ outcome.player_damage = 5
    /\ state.major_round = 3
    /\ state.player.hp = Player.hp - 5

\* C19: the capacities base_hand_verbs and base_hand_rules never decrease,
\* and no call but choose_upgrade changes them: resolve_play, the
\* refresh_hands it ends with and shop_buy_direction_skill leave both as
\* they are.
C19_CapacitiesOnlyGrow ==
    [][/\ state'.player.base_hand_verbs >= state.player.base_hand_verbs
       /\ state'.player.base_hand_rules >= state.player.base_hand_rules
       /\ ~Upgrade =>
            /\ state'.player.base_hand_verbs = state.player.base_hand_verbs
            /\ state'.player.base_hand_rules = state.player.base_hand_rules
       /\ \A seed \in Seeds :
            /\ refresh_hands(state, seed).player.base_hand_verbs
                   = state.player.base_hand_verbs
            /\ refresh_hands(state, seed).player.base_hand_rules
                   = state.player.base_hand_rules]_vars

\* a play went on to the next subround after both capacities had been raised
C19_PlayedAfterBothRaised ==
    /\ call.fn = "resolve_play"
    /\ outcome.ok
    /\ state.subround = 2
    /\ state.player.base_hand_verbs = Player.base_hand_verbs + 1
    /\ state.player.base_hand_rules = Player.base_hand_rules + 1

\* the last call ended with refresh_hands: start_new_game, choose_upgrade,
\* and a resolve_play that neither defeated the boss nor killed the player
Refreshed ==
    \/ call.fn \in {"start_new_game", "choose_upgrade"}
    \/ /\ call.fn = "resolve_play"
       /\ outcome.ok /\ ~outcome.boss_defeated /\ ~outcome.player_dead

\* C20: immediately after refresh_hands the verb hand has exactly
\* base_hand_verbs cards, all of the verb pool, the rule hand has exactly
\* base_hand_rules cards, each of them generic or bound to an infinitive of
\* the verb hand, and the question is one of the six persons.
C20_HandsAfterRefresh ==
    Refreshed =>
        LET p == state.player
        IN  /\ Len(p.hand_verbs) = p.base_hand_verbs
            /\ \A i \in 1..Len(p.hand_verbs) :
                   p.hand_verbs[i].infinitive \in Range(PoolOf[state.lexicon])
            /\ Len(p.hand_rules) = p.base_hand_rules
            /\ \A i \in 1..Len(p.hand_rules) :
                   \/ p.hand_rules[i].verb_infinitive \in {None, << >>}
                   \/ \E k \in 1..Len(p.hand_verbs) :
                          p.hand_rules[i].verb_infinitive = p.hand_verbs[k].infinitive
            /\ state.question.person \in {"1s", "2s", "3s", "1p", "2p", "3p"}

\* a refresh dealt, to a hand of four rules, a rule bound to a verb of the
\* hand and a generic one
C20_DealtBoundAndGeneric ==
    /\ call.fn = "choose_upgrade"
    /\ Len(state.player.hand_rules) = 4
    /\ \E i, k \in 1..4 :
        /\ Truthy(state.player.hand_rules[i].verb_infinitive)
        /\ ~Truthy(state.player.hand_rules[k].verb_infinitive)

--------------------------------------------------------------------------
(* Claims about a whole game under any caller *)

\* the skills among skills that triple directional damage
TripleSkills(skills) ==
    Cardinality({i \in 1..Len(skills) : skills[i].triple_damage_on_directional})

RECURSIVE Power(_, _)
Power(b, k) == IF k = 0 THEN 1 ELSE b * Power(b, k - 1)

\* C15: with k skills that triple directional damage, a successful play of
\* a rule whose pattern contains "->" deals base * 3^k damage, base in 4..7;
\* a successful play of a rule whose pattern has no arrow deals base; a
\* failed play deals 0 whatever k is.  The damage of a play is what the boss
\* loses; for a rule without an arrow, which no deal contains, and for the
\* failed play of each rule in hand, it is the damage the skill loop leaves.
C15_DirectionalDamage ==
    [][Play =>
        LET skills == state.player.skills
            k      == TripleSkills(skills)
            damage == state.boss.hp - state'.boss.hp
            directional == Contains(pattern(PlayedRule), <<"-", ">">>)
        IN  /\ IF ~Judge(state, PlayedVerb, PlayedRule).success
               THEN damage = 0
               ELSE IF directional
               THEN \E base \in 4..7 : damage = base * Power(3, k)
               ELSE damage \in 4..7
            /\ \A base \in 4..7 :
                   ApplyDirectional(base, skills,
                                    RuleCard("1s", None, None, None, None, None))
                       = base
            /\ \A i \in 1..Len(state.player.hand_rules) :
                   ApplyDirectional(0, skills, state.player.hand_rules[i]) = 0]_vars

\* with one tripling skill, bought with the coins of three plays of 7 damage
\* and the bonus, a fourth play dealt 21
C15_TripledHit ==
    /\ call.fn = "resolve_play"
    /\ outcome.ok
    /\ plays.won = 4
    /\ state.major_round = 1
    /\ TripleSkills(state.player.skills) = 1
    /\ state.boss.hp = 20 - 3 * 7 - 3 * 7

\* the player is dead: resolve_play reports player_dead when it leaves the
\* hp of the player at 0 or below, and no call raises the hp
PlayerDefeated == state.player.hp <= 0

\* C16: PlayerDefeated is terminal: once a resolve_play has reported
\* player_dead (the hp of the player is 0 or below), no later call of
\* resolve_play, shop_buy_direction_skill or choose_upgrade changes the
\* GameState.  The engine does not satisfy it: it takes every call as before.
C16_DefeatIsTerminal ==
    [][(PlayerDefeated
        /\ call'.fn \in {"resolve_play", "shop_buy_direction_skill", "choose_upgrade"})
       => state' = state]_vars

\* C17: every hp of the player the engine hands to the presentation is 0 or
\* above: outcome.player_hp of resolve_play and player.hp of the snapshot
\* get_view returns, also when the hp kept in the state is below 0.  The
\* snapshot does not satisfy it: it holds the hp as kept.
C17_ShownHpNotNegative ==
    /\ (call.fn = "resolve_play" /\ outcome.ok) => outcome.player_hp >= 0
    /\ call.fn = "get_view" => outcome.player.hp >= 0

\* C18: get_view is a pure projection: a call of it leaves every field of
\* the GameState as it is, and a second call right after a first returns a
\* snapshot equal to the first.
C18_ViewIsPure ==
    [][call'.fn = "get_view" =>
        /\ state' = state
        /\ call.fn = "get_view" => outcome' = outcome]_vars

\* a snapshot taken in the third subround shows coins won and a rule card
\* bound to a verb
C18_ViewedThirdSubround ==
    /\ call.fn = "get_view"
    /\ outcome.subround = 3
    /\ outcome.player.coins > 0
    /\ outcome.player.coins = state.player.coins
    /\ \E i \in 1..Len(outcome.player.rules) :
           Contains(outcome.player.rules[i], <<"(", "only">>)

--------------------------------------------------------------------------
(* Claims about the counters, the coins and the hp over a game *)

\* state after is state before one subround later, with hands and question
\* dealt anew
NextSubroundDealt(before, after) ==
    \E seed \in Seeds :
        after = refresh_hands(
                    [before EXCEPT !.subround = before.subround + 1,
                                   !.boss = after.boss,
                                   !.player.hp = after.player.hp,
                                   !.player.coins = after.player.coins],
                    seed)

\* C21: the subround counter grows by exactly 1, and hands and question are
\* dealt anew, on every resolve_play with valid indices that leaves the hp of
\* the boss and of the player above 0; it stays on a play with an invalid
\* index, a play that defeats the boss, a play that kills the player and a
\* purchase at the shop; only choose_upgrade sets it back to 1.
C21_SubroundCounter ==
    [][/\ (Subround /\ state'.boss.hp > 0 /\ state'.player.hp > 0)
            => /\ state'.subround = state.subround + 1
               /\ NextSubroundDealt(state, state')
       /\ (call'.fn = "play_subround" /\ ~outcome'.ok) => state' = state
       /\ (Subround /\ (outcome'.boss_defeated \/ outcome'.player_dead))
            => state'.subround = state.subround
       /\ call'.fn = "between_subround_shop" => state'.subround = state.subround
       /\ call'.fn = "end_of_major_round" => state'.subround = 1
       /\ state'.subround < state.subround => call'.fn = "end_of_major_round"]_vars

\* the upgrade after a boss defeated in the fourth subround set the counter
\* back to 1
C21_ResetAfterFourthSubround ==
    /\ call.fn = "end_of_major_round"
    /\ state.subround = 1
    /\ state.major_round = 2
    /\ plays.won + plays.lost = 4

\* C22: the bonus of 8 to 12 coins for defeating the boss is given at most
\* once for each boss: between two calls of choose_upgrade at most one
\* resolve_play returns boss_defeated and adds the bonus.  A boss at 0 hp or
\* below stays there until choose_upgrade replaces it, so a second such play
\* is one made against a boss already at 0 or below.  The engine does not
\* satisfy it: every play against such a boss is paid the bonus.
C22_BonusOncePerBoss ==
    [][(Play /\ outcome'.boss_defeated) => state.boss.hp > 0]_vars

\* C23: major_round advances only after the boss has been defeated: every
\* choose_upgrade, which adds 1 to major_round and replaces the boss, is
\* called in a state whose boss is at 0 hp or below.  The engine does not
\* satisfy it: choose_upgrade does not look at the boss.
C23_UpgradeAfterDefeat ==
    [][Upgrade => state.boss.hp <= 0]_vars

\* C24: the coins of the player are 0 or above in every reachable state:
\* they start at 0, grow only by the reward of a play (1 to 3) and the bonus
\* for a defeated boss (8 to 12), and fall only by exactly 10, in a purchase
\* made with 10 coins or more.
C24_CoinsNeverNegative ==
    /\ [](state.player.coins >= 0)
    /\ [][LET gained == state'.player.coins - state.player.coins
              won    == state'.boss.hp < state.boss.hp
          IN  IF Play
              THEN \E reward \in (IF won THEN 1..3 ELSE {0}),
                      bonus \in (IF outcome'.boss_defeated THEN 8..12 ELSE {0}) :
                       gained = reward + bonus
              ELSE IF call'.fn = "shop_buy_direction_skill" /\ outcome' = TRUE
              THEN gained = -10 /\ state.player.coins >= 10
              ELSE gained = 0]_vars

\* a purchase made with exactly 10 coins, the rewards of four plays against
\* a boss still standing, left none
C24_SpentLastCoins ==
    /\ call.fn = "shop_buy_direction_skill"
    /\ outcome = TRUE
    /\ state.player.coins = 0
    /\ state.boss.hp > 0
    /\ plays.won = 4

\* C25: the hp of the player never grows, whatever is called, choose_upgrade
\* included, and every play with valid indices whose damage is 0 lowers it by
\* 1 at least; so the hp is at most 20 less the number of such plays, and the
\* play that brings it to 0 or below reports the player dead: the player is
\* defeated after 20 such plays at most.
C25_HpOnlyFalls ==
    /\ [](state.player.hp <= 20 - plays.lost)
    /\ [][/\ state'.player.hp <= state.player.hp
          /\ (Play /\ plays'.lost = plays.lost + 1)
                => /\ state'.boss.hp = state.boss.hp
                   /\ state'.player.hp <= state.player.hp - 1
                   /\ state'.player.hp <= 0 => outcome'.player_dead]_vars

\* the fifth lost play of a game, made in major round 2, brought the hp to 0
\* and reported the player dead
C25_DeadAfterFiveInRoundTwo ==
    /\ call.fn = "resolve_play"
    /\ outcome.ok
    /\ outcome.player_dead
    /\ plays.lost = 5
    /\ state.player.hp = 0
    /\ state.major_round = 2

====
